---- MODULE Spec2Model ----
(***************************************************************************)
(* A model of the delta table engine (src/src/table.rs and the schema,     *)
(* metadata and action modules it uses): one table directory holding data  *)
(* files and a _delta_log directory of newline-delimited JSON actions.     *)
(*                                                                         *)
(* File contents are modelled structurally: a log file is the sequence of  *)
(* its lines, a line is the JSON object serde writes (a record with the    *)
(* wire tag as key), a data file is the DataFrame the parquet writer was   *)
(* handed.  File names are the zero-padded digit strings the code formats. *)
(***************************************************************************)
EXTENDS Integers, Sequences, FiniteSets, TLC

VARIABLES
    baseDir,     \* TRUE iff tables/<name> exists
    logsDir,     \* TRUE iff tables/<name>/_delta_log exists
    dataFiles,   \* data files of the base directory: file name -> DataFrame
    logFiles,    \* files of the log directory: file name -> sequence of lines
    table,       \* the caller's DeltaTable handle, [open |-> FALSE] when it has none
    now,         \* the wall clock, in milliseconds since the epoch
    created,     \* history: the metadata and schema create_table built
    last,        \* history: the last call, its argument, its result
    procs,       \* the calls in flight on concurrent handles, step by step
    inserted     \* history: the number of inserts that returned Ok

vars == <<baseDir, logsDir, dataFiles, logFiles, table, now, created, last,
          procs, inserted>>

fsVars == <<baseDir, logsDir, dataFiles, logFiles>>

---------------------------------------------------------------------------
(* Bounds and input domains                                                *)

\* most log files the engine writes in one behaviour (version 0 included)
MaxVersions == 3

\* SpecLog: most files, and most lines over all files, of a drawn log directory
MaxFiles == 3
MaxLines == 3
\* the inserts that fill a table before its deletes, and the deletes after
MaxSeed == 2
MaxDeletes == 2
\* the inserts that fill a table before two handles race on it
MaxRaceSeed == 1
\* SpecFault: most data files in the base directory when a call begins
MaxDataFiles == 3

TableNames == {"t"}
Ids == {1, 2}
Times == {1, 2}

\* rust results
Ok(v) == [ok |-> TRUE, val |-> v]
Err(e) == [ok |-> FALSE, err |-> e]

EmptyMap == <<>>

---------------------------------------------------------------------------
(* File names                                                              *)

PadWidth == 20

RECURSIVE Digits(_)
Digits(n) == IF n < 10 THEN <<n>> ELSE Append(Digits(n \div 10), n % 10)

\* format!("{:0>20}", n): the decimal digits of n behind as many '0' as it
\* takes to reach 20 characters (none when n has 20 digits or more)
ZeroPad(n) ==
    LET d == Digits(n)
    IN [pad |-> IF Len(d) >= PadWidth THEN 0 ELSE PadWidth - Len(d), digits |-> d]

\* the characters of a padded number
Chars(z) == [i \in 1..z.pad |-> 0] \o z.digits

log_file(idx) == [stem |-> ZeroPad(idx), ext |-> "json"]

DataFileName(idx) == [stem |-> ZeroPad(idx), ext |-> "parquet"]

\* byte-wise string comparison of two digit strings: a is a proper prefix of
\* b, or a is smaller at the first position where they differ
StrLess(a, b) ==
    \/ Len(a) < Len(b) /\ \A j \in 1..Len(a) : a[j] = b[j]
    \/ \E i \in 1..Len(a) :
          /\ i <= Len(b)
          /\ a[i] < b[i]
          /\ \A j \in 1..(i - 1) : a[j] = b[j]

\* a padded number without its first k pad characters
DropPad(z, k) == [pad |-> z.pad - k, digits |-> z.digits]

\* file_name().cmp(): the names compared here share their extension, and the
\* pad characters two stems share as a prefix decide nothing
NameLess(a, b) ==
    LET k == IF a.stem.pad < b.stem.pad THEN a.stem.pad ELSE b.stem.pad
    IN StrLess(Chars(DropPad(a.stem, k)), Chars(DropPad(b.stem, k)))

---------------------------------------------------------------------------
(* Schema (schema.rs)                                                      *)

ColumnTypes == {"String", "Long", "Integer", "Short", "Byte", "Float",
                "Double", "Boolean", "Date", "Timestamp"}

\* str::to_uppercase on the keywords the model feeds in
to_uppercase(s) ==
    CASE s = "int" -> "INT"
      [] s = "Int" -> "INT"
      [] s = "text" -> "TEXT"
      [] s = "bigint" -> "BIGINT"
      [] s = "not_a_type" -> "NOT_A_TYPE"
      [] s = "varchar" -> "VARCHAR"
      [] OTHER -> s

\* mutant of from_sql_type: an unknown keyword falls back to String
from_sql_type_lenient(sql_type) ==
    LET u == to_uppercase(sql_type)
    IN CASE u = "BIGINT" -> Ok("Long")
         [] u = "INT" -> Ok("Integer")
         [] u = "SMALLINT" -> Ok("Short")
         [] u = "TINYINT" -> Ok("Byte")
         [] u = "FLOAT" -> Ok("Float")
         [] u = "DOUBLE" -> Ok("Double")
         [] u = "BOOL" -> Ok("Boolean")
         [] u = "DATE" -> Ok("Date")
         [] u = "TIMESTAMP" -> Ok("Timestamp")
         [] OTHER -> Ok("String")

from_sql_type(sql_type) ==
    LET u == to_uppercase(sql_type)
    IN CASE u = "TEXT" -> Ok("String")
         [] u = "BIGINT" -> Ok("Long")
         [] u = "INT" -> Ok("Integer")
         [] u = "SMALLINT" -> Ok("Short")
         [] u = "TINYINT" -> Ok("Byte")
         [] u = "FLOAT" -> Ok("Float")
         [] u = "DOUBLE" -> Ok("Double")
         [] u = "BOOL" -> Ok("Boolean")
         [] u = "DATE" -> Ok("Date")
         [] u = "TIMESTAMP" -> Ok("Timestamp")
         [] OTHER -> Err("InvalidType")

\* the loop of from_sql over sql_schema[i..], fields being those pushed so far
RECURSIVE FromSqlLoop(_, _, _)
FromSqlLoop(sql_schema, i, fields) ==
    IF i > Len(sql_schema)
    THEN Ok([fields |-> fields, typ |-> "Struct"])
    ELSE LET typ == from_sql_type(sql_schema[i][2])
         IN IF ~typ.ok THEN Err(typ.err)
            ELSE FromSqlLoop(sql_schema, i + 1,
                     Append(fields, [name |-> sql_schema[i][1],
                                     typ |-> typ.val,
                                     nullable |-> FALSE,
                                     metadata |-> EmptyMap]))

from_sql(sql_schema) == FromSqlLoop(sql_schema, 1, <<>>)

ColumnIsValid(field) == ~field.nullable

\* Iterator::all with the seen set: stops at the first repeated name
RECURSIVE SchemaValidLoop(_, _, _)
SchemaValidLoop(fields, i, seen) ==
    IF i > Len(fields) THEN TRUE
    ELSE IF fields[i].name \in seen THEN FALSE
    ELSE IF ~ColumnIsValid(fields[i]) THEN FALSE
    ELSE SchemaValidLoop(fields, i + 1, seen \cup {fields[i].name})

\* mutant of SchemaIsValid: the seen set left out, only nullability checked
SchemaIsValidNoSeen(schema) ==
    \A i \in 1..Len(schema.fields) : ColumnIsValid(schema.fields[i])

SchemaIsValid(schema) == SchemaValidLoop(schema.fields, 1, {})

\* serde, rename_all = "camelCase", on the type enums
TypeWire(typ) ==
    CASE typ = "String" -> "string"
      [] typ = "Long" -> "long"
      [] typ = "Integer" -> "integer"
      [] typ = "Short" -> "short"
      [] typ = "Byte" -> "byte"
      [] typ = "Float" -> "float"
      [] typ = "Double" -> "double"
      [] typ = "Boolean" -> "boolean"
      [] typ = "Date" -> "date"
      [] typ = "Timestamp" -> "timestamp"

TypeFromWire(w) ==
    IF \E t \in ColumnTypes : TypeWire(t) = w
    THEN Ok(CHOOSE t \in ColumnTypes : TypeWire(t) = w)
    ELSE Err("JsonError")

\* serde_json::to_string(&schema)
SchemaToJson(schema) ==
    [fields |-> [i \in 1..Len(schema.fields) |->
                    [name |-> schema.fields[i].name,
                     type |-> TypeWire(schema.fields[i].typ),
                     nullable |-> schema.fields[i].nullable,
                     metadata |-> schema.fields[i].metadata]],
     type |-> "struct"]

\* serde_json::from_str::<DeltaTableSchema>
SchemaFromJson(j) ==
    IF j.type # "struct" \/ \E i \in 1..Len(j.fields) : ~TypeFromWire(j.fields[i].type).ok
    THEN Err("JsonError")
    ELSE Ok([fields |-> [i \in 1..Len(j.fields) |->
                            [name |-> j.fields[i].name,
                             typ |-> TypeFromWire(j.fields[i].type).val,
                             nullable |-> j.fields[i].nullable,
                             metadata |-> j.fields[i].metadata]],
             typ |-> "Struct"])

---------------------------------------------------------------------------
(* Metadata (metadata.rs)                                                  *)

DeltaTableFormat(provider, options) == [provider |-> provider, options |-> options]

FormatIsValid(format) == format.provider = "parquet" /\ DOMAIN format.options = {}

DeltaTableMetadata(id, name, format, schema_string, partition_columns, configuration) ==
    [id |-> id, name |-> name, format |-> format, schema_string |-> schema_string,
     partition_columns |-> partition_columns, configuration |-> configuration]

MetadataIsValid(m) ==
    /\ FormatIsValid(m.format)
    /\ m.partition_columns = <<>>
    /\ DOMAIN m.configuration = {}

MetadataSchema(m) == SchemaFromJson(m.schema_string)

MetadataToJson(m) ==
    [id |-> m.id, name |-> m.name,
     format |-> [provider |-> m.format.provider, options |-> m.format.options],
     schemaString |-> m.schema_string,
     partitionColumns |-> m.partition_columns,
     configuration |-> m.configuration]

MetadataFromJson(j) ==
    IF DOMAIN j # {"id", "name", "format", "schemaString", "partitionColumns", "configuration"}
    THEN Err("JsonError")
    ELSE Ok(DeltaTableMetadata(j.id, j.name,
                DeltaTableFormat(j.format.provider, j.format.options),
                j.schemaString, j.partitionColumns, j.configuration))

---------------------------------------------------------------------------
(* Actions (actions.rs) and their JSON lines                               *)

Add(path, partition_values, size, modification_time, data_change) ==
    [tag |-> "Add", path |-> path, partition_values |-> partition_values,
     size |-> size, modification_time |-> modification_time,
     data_change |-> data_change]

Remove(path, data_change) ==
    [tag |-> "Remove", path |-> path, data_change |-> data_change]

Metadata(m) == [tag |-> "Metadata", metadata |-> m]

\* mutant of WireLabel: rename_all alone, without the rename of Metadata
WireLabelCamel(tag) ==
    CASE tag = "Add" -> "add"
      [] tag = "Remove" -> "remove"
      [] tag = "Metadata" -> "metadata"

\* the wire label of each variant: camelCase, Metadata renamed to "metaData"
WireLabel(tag) ==
    CASE tag = "Add" -> "add"
      [] tag = "Remove" -> "remove"
      [] tag = "Metadata" -> "metaData"

\* serde_json::to_string(&action): an object with the wire label as its only key
ActionToJson(a) ==
    CASE a.tag = "Add" ->
            [key |-> WireLabel(a.tag),
             val |-> [path |-> a.path, partitionValues |-> a.partition_values,
                      size |-> a.size, modificationTime |-> a.modification_time,
                      dataChange |-> a.data_change]]
      [] a.tag = "Remove" ->
            [key |-> WireLabel(a.tag),
             val |-> [path |-> a.path, dataChange |-> a.data_change]]
      [] a.tag = "Metadata" ->
            [key |-> WireLabel(a.tag), val |-> MetadataToJson(a.metadata)]

\* serde_json::from_str::<Action>(line)
ActionFromJson(line) ==
    CASE line.key = "add" ->
            IF DOMAIN line.val # {"path", "partitionValues", "size",
                                  "modificationTime", "dataChange"}
            THEN Err("JsonError")
            ELSE Ok(Add(line.val.path, line.val.partitionValues, line.val.size,
                        line.val.modificationTime, line.val.dataChange))
      [] line.key = "remove" ->
            IF DOMAIN line.val # {"path", "dataChange"}
            THEN Err("JsonError")
            ELSE Ok(Remove(line.val.path, line.val.dataChange))
      [] line.key = "metaData" ->
            LET m == MetadataFromJson(line.val)
            IN IF m.ok THEN Ok(Metadata(m.val)) ELSE Err("JsonError")
      [] OTHER -> Err("JsonError")

\* mutant of ParseContents: reads the first line and ignores what follows it
ParseFirstLine(contents) ==
    IF Len(contents) = 0 THEN Err("JsonError") ELSE ActionFromJson(contents[1])

\* serde_json::from_str over a whole file: one JSON value, nothing after it
ParseContents(contents) ==
    IF Len(contents) # 1 THEN Err("JsonError") ELSE ActionFromJson(contents[1])

---------------------------------------------------------------------------
(* The file system calls                                                   *)

\* mutant of WriteFile: an existing file is appended to, not replaced
WriteFileAppend(files, name, contents) ==
    [f \in DOMAIN files \cup {name} |->
        IF f # name THEN files[f]
        ELSE IF name \in DOMAIN files THEN files[name] \o contents
        ELSE contents]

\* fs::write / File::create: creates the file or replaces its content
WriteFile(files, name, contents) ==
    [f \in DOMAIN files \cup {name} |-> IF f = name THEN contents ELSE files[f]]

\* the entries of the base directory: the data files and the log directory
BaseDirEntries(ld, files) == Cardinality(DOMAIN files) + (IF ld THEN 1 ELSE 0)

\* mutant of next_data_file: index 0 whatever the directory holds
next_data_file_constant(bd, ld, files) ==
    IF ~bd THEN Err("IOError")
    ELSE Ok(DataFileName(0))

next_data_file(bd, ld, files) ==
    IF ~bd THEN Err("IOError")
    ELSE Ok(DataFileName(BaseDirEntries(ld, files) - 1))

\* mutant of next_log_file: versions counted from one
next_log_file_from_one(ld, logs) ==
    IF ~ld THEN Err("IOError")
    ELSE Ok(log_file(Cardinality(DOMAIN logs) + 1))

\* mutant of next_log_file: no version beyond 1, the last file written again
next_log_file_capped(ld, logs) ==
    IF ~ld THEN Err("IOError")
    ELSE Ok(log_file(IF Cardinality(DOMAIN logs) > 1 THEN 1
                     ELSE Cardinality(DOMAIN logs)))

next_log_file(ld, logs) ==
    IF ~ld THEN Err("IOError")
    ELSE Ok(log_file(Cardinality(DOMAIN logs)))

---------------------------------------------------------------------------
(* DataFrames: a sequence of columns [name, typ, values]                   *)

Height(df) == IF Len(df) = 0 THEN 0 ELSE Len(df[1].values)

\* what the parquet writer reports as written: grows with the cells stored
ParquetSize(df) == Len(df) * Height(df)

write_data_file(bd, ld, files, df) ==
    LET data_file == next_data_file(bd, ld, files)
    IN IF ~data_file.ok THEN [ok |-> FALSE, err |-> data_file.err, files |-> files]
       ELSE [ok |-> TRUE,
             val |-> [name |-> data_file.val, size |-> ParquetSize(df)],
             files |-> WriteFile(files, data_file.val, df)]

IntegerTypes == {"Long", "Integer", "Short", "Byte"}

\* Series::cast of one raw string to the column's type
Cast(cell, typ) ==
    IF typ = "String" THEN Ok(cell)
    ELSE IF typ \in IntegerTypes /\ cell \in {"1", "2"}
         THEN Ok(IF cell = "1" THEN 1 ELSE 2)
         ELSE Err("cast")

\* the rows of a DataFrame, each a function from column name to value
RowAt(df, r) == [i \in 1..Len(df) |-> df[i].values[r]]

\* mutant of FilterNot: the query without its NOT, keeping the matching rows
FilterOnly(df, expr) ==
    IF ~\E i \in 1..Len(df) : df[i].name = expr.col
    THEN Err("PolarsError")
    ELSE LET c == CHOOSE i \in 1..Len(df) : df[i].name = expr.col
         IN Ok([i \in 1..Len(df) |->
                   [name |-> df[i].name, typ |-> df[i].typ,
                    values |-> LET idx == SelectSeq([r \in 1..Height(df) |-> r],
                                                    LAMBDA r : df[c].values[r] = expr.val)
                               IN [k \in 1..Len(idx) |-> df[i].values[idx[k]]]]])

\* SELECT * FROM df WHERE NOT (expr), expr being <column> = <literal>
FilterNot(df, expr) ==
    IF ~\E i \in 1..Len(df) : df[i].name = expr.col
    THEN Err("PolarsError")
    ELSE LET c == CHOOSE i \in 1..Len(df) : df[i].name = expr.col
             keep(v) == ~(v = expr.val)
         IN Ok([i \in 1..Len(df) |->
                   [name |-> df[i].name, typ |-> df[i].typ,
                    values |-> LET idx == SelectSeq([r \in 1..Height(df) |-> r],
                                                    LAMBDA r : keep(df[c].values[r]))
                               IN [k \in 1..Len(idx) |-> df[i].values[idx[k]]]]])

---------------------------------------------------------------------------
(* Log replay (table.rs, get_datafiles)                                    *)

\* mutant of SortDescending: the comparison the other way round, oldest first
RECURSIVE SortAscending(_)
SortAscending(names) ==
    IF names = {} THEN <<>>
    ELSE LET low == CHOOSE x \in names : \A y \in names : y = x \/ NameLess(x, y)
         IN <<low>> \o SortAscending(names \ {low})

\* logs.sort_by(|a, b| b.file_name().cmp(&a.file_name())): descending by name
RECURSIVE SortDescending(_)
SortDescending(names) ==
    IF names = {} THEN <<>>
    ELSE LET top == CHOOSE x \in names : \A y \in names : y = x \/ NameLess(y, x)
         IN <<top>> \o SortDescending(names \ {top})

\* mutant of ReplayAction: a Remove is read and forgotten
ReplayActionAddsOnly(action, acc) ==
    CASE action.tag = "Add" -> [acc EXCEPT !.data_files = @ \cup {action.path}]
      [] action.tag = "Remove" -> acc
      [] action.tag = "Metadata" -> acc

\* the match on one action: the removed_files and data_files sets after it
ReplayAction(action, acc) ==
    CASE action.tag = "Add" ->
            IF action.path \notin acc.removed_files
            THEN [acc EXCEPT !.data_files = @ \cup {action.path}]
            ELSE acc
      [] action.tag = "Remove" ->
            [acc EXCEPT !.removed_files = @ \cup {action.path}]
      [] action.tag = "Metadata" -> acc

\* the inner loop over the lines of one log file, from line i on
RECURSIVE ReplayLines(_, _, _)
ReplayLines(lines, i, acc) ==
    IF i > Len(lines) THEN Ok(acc)
    ELSE LET action == ActionFromJson(lines[i])
         IN IF ~action.ok THEN Err(action.err)
            ELSE ReplayLines(lines, i + 1, ReplayAction(action.val, acc))

\* the outer loop over the sorted log files, from file k on
RECURSIVE ReplayLogs(_, _, _, _)
ReplayLogs(logs, order, k, acc) ==
    IF k > Len(order) THEN Ok(acc)
    ELSE LET r == ReplayLines(logs[order[k]], 1, acc)
         IN IF ~r.ok THEN r ELSE ReplayLogs(logs, order, k + 1, r.val)

get_datafiles(ld, logs) ==
    IF ~ld THEN Err("IOError")
    ELSE LET r == ReplayLogs(logs, SortDescending(DOMAIN logs), 1,
                             [removed_files |-> {}, data_files |-> {}])
         IN IF ~r.ok THEN r ELSE Ok(r.val.data_files)

---------------------------------------------------------------------------
(* The table engine (table.rs)                                             *)

NoTable == [open |-> FALSE]

DeltaTable(metadata, name) ==
    [open |-> TRUE, metadata |-> metadata,
     base_dir |-> <<"tables", name>>,
     logs_dir |-> <<"tables", name, "_delta_log">>]

\* mutant of read_table: the newest log file read instead of version 0
read_table_latest(name, ld, logs) ==
    IF ~ld \/ DOMAIN logs = {} THEN Err("IOError")
    ELSE LET action == ParseContents(logs[SortDescending(DOMAIN logs)[1]])
         IN IF action.ok /\ action.val.tag = "Metadata"
            THEN Ok(DeltaTable(action.val.metadata, name))
            ELSE Err("InvalidTable")

\* read_table: the handle, or the error
read_table(name, ld, logs) ==
    IF ~ld \/ log_file(0) \notin DOMAIN logs THEN Err("IOError")
    ELSE LET action == ParseContents(logs[log_file(0)])
         IN IF action.ok /\ action.val.tag = "Metadata"
            THEN Ok(DeltaTable(action.val.metadata, name))
            ELSE Err("InvalidTable")

\* mutant of create_dir: create_dir_all, which succeeds on an existing directory
create_dir_all(exists) == Ok(TRUE)

\* fs::create_dir on a directory that exists or not
create_dir(exists) == IF exists THEN Err("AlreadyExists") ELSE Ok(TRUE)

\* create_table up to the file system calls: the handle to create, or the error
CreateTableChecks(name, sql_schema, id) ==
    LET schema == from_sql(sql_schema)
    IN IF ~schema.ok THEN Err(schema.err)
       ELSE IF ~SchemaIsValid(schema.val) THEN Err("InvalidTable")
       ELSE LET metadata == DeltaTableMetadata(id, name,
                                DeltaTableFormat("parquet", EmptyMap),
                                SchemaToJson(schema.val), <<>>, EmptyMap)
            IN IF ~MetadataIsValid(metadata) THEN Err("InvalidTable")
               ELSE Ok(DeltaTable(metadata, name))

\* the columns insert builds: column i holds row[i] of every row, cast to the
\* field's type; indexing past a row's end, or a failed cast unwrapped, panics
InsertColumns(fields, data) ==
    IF \E i \in 1..Len(fields), r \in 1..Len(data) : Len(data[r]) < i
    THEN Err("panic")
    ELSE IF \E i \in 1..Len(fields), r \in 1..Len(data) :
                ~Cast(data[r][i], fields[i].typ).ok
    THEN Err("panic")
    ELSE Ok([i \in 1..Len(fields) |->
                [name |-> fields[i].name, typ |-> fields[i].typ,
                 values |-> [r \in 1..Len(data) |->
                                Cast(data[r][i], fields[i].typ).val]]])

\* DataFrame::new: column names must be distinct
NewDataFrame(cols) ==
    IF \E i, j \in 1..Len(cols) : i # j /\ cols[i].name = cols[j].name
    THEN Err("PolarsError")
    ELSE Ok(cols)

\* the Add action insert and delete write for a data file
AddFor(data_file, modification_time) ==
    Add(data_file.name, EmptyMap, data_file.size, modification_time, TRUE)

\* mutant of DeleteLoop: a file left without rows is dropped, not rewritten
RECURSIVE DeleteLoopDropsEmptied(_, _, _, _, _, _, _, _)
DeleteLoopDropsEmptied(bd, ld, files, order, k, expr, created_files, deleted_files) ==
    IF k > Len(order)
    THEN [res |-> "Ok", files |-> files,
          created_files |-> created_files, deleted_files |-> deleted_files]
    ELSE IF ~bd \/ order[k] \notin DOMAIN files
    THEN [res |-> "PolarsError", files |-> files,
          created_files |-> created_files, deleted_files |-> deleted_files]
    ELSE LET df == files[order[k]]
             original_rows == Height(df)
             updated == FilterNot(df, expr)
         IN IF ~updated.ok
            THEN [res |-> updated.err, files |-> files,
                  created_files |-> created_files, deleted_files |-> deleted_files]
            ELSE IF Height(updated.val) = original_rows
            THEN DeleteLoopDropsEmptied(bd, ld, files, order, k + 1, expr,
                                        created_files, deleted_files)
            ELSE IF Height(updated.val) = 0
            THEN DeleteLoopDropsEmptied(bd, ld, files, order, k + 1, expr,
                                        created_files,
                                        Append(deleted_files, order[k]))
            ELSE LET w == write_data_file(bd, ld, files, updated.val)
                 IN IF ~w.ok
                    THEN [res |-> w.err, files |-> w.files,
                          created_files |-> created_files,
                          deleted_files |-> deleted_files]
                    ELSE DeleteLoopDropsEmptied(bd, ld, w.files, order, k + 1, expr,
                                                Append(created_files, w.val),
                                                Append(deleted_files, order[k]))

\* the loop of delete over the live files in iteration order, from file k on
RECURSIVE DeleteLoop(_, _, _, _, _, _, _, _)
DeleteLoop(bd, ld, files, order, k, expr, created_files, deleted_files) ==
    IF k > Len(order)
    THEN [res |-> "Ok", files |-> files,
          created_files |-> created_files, deleted_files |-> deleted_files]
    ELSE IF ~bd \/ order[k] \notin DOMAIN files
    THEN [res |-> "PolarsError", files |-> files,
          created_files |-> created_files, deleted_files |-> deleted_files]
    ELSE LET df == files[order[k]]
             original_rows == Height(df)
             updated == FilterNot(df, expr)
         IN IF ~updated.ok
            THEN [res |-> updated.err, files |-> files,
                  created_files |-> created_files, deleted_files |-> deleted_files]
            ELSE IF Height(updated.val) = original_rows
            THEN DeleteLoop(bd, ld, files, order, k + 1, expr,
                            created_files, deleted_files)
            ELSE LET w == write_data_file(bd, ld, files, updated.val)
                 IN IF ~w.ok
                    THEN [res |-> w.err, files |-> w.files,
                          created_files |-> created_files,
                          deleted_files |-> deleted_files]
                    ELSE DeleteLoop(bd, ld, w.files, order, k + 1, expr,
                                    Append(created_files, w.val),
                                    Append(deleted_files, order[k]))

\* mutant of DeleteActions: the Removes written before the Adds
DeleteActionsRemovesFirst(created_files, deleted_files, modification_time) ==
    [i \in 1..Len(deleted_files) |->
        ActionToJson(Remove(deleted_files[i], TRUE))]
    \o [i \in 1..Len(created_files) |->
        ActionToJson(AddFor(created_files[i], modification_time))]

\* the lines of a delete commit: the Adds, then the Removes
DeleteActions(created_files, deleted_files, modification_time) ==
    [i \in 1..Len(created_files) |->
        ActionToJson(AddFor(created_files[i], modification_time))]
    \o [i \in 1..Len(deleted_files) |->
        ActionToJson(Remove(deleted_files[i], TRUE))]

\* the orders in which a HashSet may be iterated
Orders(S) ==
    {o \in [1..Cardinality(S) -> S] : \A i, j \in 1..Cardinality(S) : i # j => o[i] # o[j]}

\* insert: its result and the files it leaves, the clock reading t
insert(tbl, bd, ld, files, logs, data, t) ==
    LET schema == MetadataSchema(tbl.metadata)
        failed(e, fs) == [res |-> e, files |-> fs, logs |-> logs]
    IN IF ~schema.ok THEN failed(schema.err, files)
       ELSE LET cols == InsertColumns(schema.val.fields, data)
            IN IF ~cols.ok THEN failed(cols.err, files)
               ELSE LET df == NewDataFrame(cols.val)
                    IN IF ~df.ok THEN failed(df.err, files)
                       ELSE LET w == write_data_file(bd, ld, files, df.val)
                            IN IF ~w.ok THEN failed(w.err, w.files)
                               ELSE LET nl == next_log_file(ld, logs)
                                    IN IF ~nl.ok THEN failed(nl.err, w.files)
                                       ELSE [res |-> "Ok", files |-> w.files,
                                             logs |-> WriteFile(logs, nl.val,
                                                 <<ActionToJson(AddFor(w.val, t))>>)]

\* mutant of delete: the commit holds the Adds and no Remove
delete_without_removes(bd, ld, files, logs, expr, order, t) ==
    LET r == DeleteLoop(bd, ld, files, order, 1, expr, <<>>, <<>>)
    IN IF r.res # "Ok" THEN [res |-> r.res, files |-> r.files, logs |-> logs]
       ELSE LET nl == next_log_file(ld, logs)
            IN IF ~nl.ok THEN [res |-> nl.err, files |-> r.files, logs |-> logs]
               ELSE [res |-> "Ok", files |-> r.files,
                     logs |-> WriteFile(logs, nl.val,
                                 DeleteActions(r.created_files, <<>>, t))]

\* delete: its result and the files it leaves, for one iteration order of
\* the live set and the clock reading t
delete(bd, ld, files, logs, expr, order, t) ==
    LET r == DeleteLoop(bd, ld, files, order, 1, expr, <<>>, <<>>)
    IN IF r.res # "Ok" THEN [res |-> r.res, files |-> r.files, logs |-> logs]
       ELSE LET nl == next_log_file(ld, logs)
            IN IF ~nl.ok THEN [res |-> nl.err, files |-> r.files, logs |-> logs]
               ELSE [res |-> "Ok", files |-> r.files,
                     logs |-> WriteFile(logs, nl.val,
                                 DeleteActions(r.created_files, r.deleted_files, t))]

---------------------------------------------------------------------------
(* Inputs                                                                  *)

ColumnLists ==
    { << <<"foo", "INT">>, <<"bar", "TEXT">> >>,
      << <<"foo", "int">> >>,
      << <<"x", "NOT_A_TYPE">> >>,
      << <<"foo", "INT">>, <<"bar", "varchar">> >>,
      << <<"foo", "not_a_type">>, <<"foo", "INT">> >>,
      << <<"foo", "INT">>, <<"foo", "TEXT">> >>,
      << <<"foo", "bigint">>, <<"bar", "Int">>, <<"foo", "text">> >> }

Batches ==
    { <<>>,
      << <<"1", "a">> >>,
      << <<"2", "b">> >>,
      << <<"1", "a">>, <<"2", "b">> >>,
      << <<"1">> >> }

Exprs == { [col |-> "foo", val |-> 1], [col |-> "foo", val |-> 2],
           [col |-> "foo", val |-> 999] }

Call(op, arg, res, out) == [op |-> op, arg |-> arg, res |-> res, out |-> out]

\* the handles that may run calls at the same time
Handles == {1, 2}

\* a handle with no call in flight
IdleProc ==
    [pc |-> "idle", op |-> "none", arg |-> <<>>, res |-> "none", df |-> <<>>,
     data_file |-> <<>>, size |-> 0, log_name |-> <<>>, t |-> 0,
     order |-> <<>>, k |-> 0, created_files |-> <<>>, deleted_files |-> <<>>,
     overlapped |-> FALSE, table |-> NoTable]

---------------------------------------------------------------------------
(* Operations                                                              *)

CreateTable(name, sql_schema) ==
    \E id \in Ids :
    LET c == CreateTableChecks(name, sql_schema, id)
        arg == [name |-> name, schema |-> sql_schema]
    IN IF ~c.ok
       THEN /\ last' = Call("create_table", arg, c.err, <<>>)
            /\ UNCHANGED <<fsVars, table, now, created, procs, inserted>>
       ELSE IF ~create_dir(baseDir).ok
       THEN /\ last' = Call("create_table", arg, "TableAlreadyExists", <<>>)
            /\ UNCHANGED <<fsVars, table, now, created, procs, inserted>>
       ELSE /\ baseDir' = TRUE
            /\ logsDir' = TRUE
            /\ logFiles' = WriteFile(logFiles, next_log_file(TRUE, logFiles).val,
                                     <<ActionToJson(Metadata(c.val.metadata))>>)
            /\ table' = c.val
            /\ created' = [set |-> TRUE, metadata |-> c.val.metadata,
                           schema |-> from_sql(sql_schema).val]
            /\ last' = Call("create_table", arg, "Ok", <<>>)
            /\ UNCHANGED <<dataFiles, now, procs, inserted>>

ReadTable(name) ==
    LET r == read_table(name, logsDir, logFiles)
    IN /\ table' = IF r.ok THEN r.val ELSE table
       /\ last' = Call("read_table", name, IF r.ok THEN "Ok" ELSE r.err, <<>>)
       /\ UNCHANGED <<fsVars, now, created, procs, inserted>>

Insert(data) ==
    /\ table.open
    /\ Cardinality(DOMAIN logFiles) < MaxVersions
    /\ LET r == insert(table, baseDir, logsDir, dataFiles, logFiles, data, now)
       IN /\ dataFiles' = r.files
          /\ logFiles' = r.logs
          /\ table' = IF r.res = "panic" THEN NoTable ELSE table
          /\ last' = Call("insert", data, r.res, <<>>)
          /\ inserted' = IF r.res = "Ok" THEN inserted + 1 ELSE inserted
    /\ UNCHANGED <<baseDir, logsDir, now, created, procs>>

\* one call of delete on the handle held
DeleteCall(expr) ==
    /\ table.open
    /\ LET live == get_datafiles(logsDir, logFiles)
       IN IF ~live.ok
          THEN /\ last' = Call("delete", expr, live.err, <<>>)
               /\ UNCHANGED <<dataFiles, logFiles>>
          ELSE \E order \in Orders(live.val) :
                  LET r == delete(baseDir, logsDir, dataFiles, logFiles, expr, order, now)
                  IN /\ dataFiles' = r.files
                     /\ logFiles' = r.logs
                     /\ last' = Call("delete", expr, r.res, <<>>)
    /\ UNCHANGED <<baseDir, logsDir, table, now, created, procs, inserted>>

Delete(expr) ==
    /\ Cardinality(DOMAIN logFiles) < MaxVersions
    /\ DeleteCall(expr)

\* mutant of GetDatafiles: the replay leaves a checkpoint file behind
GetDatafilesCheckpoint ==
    /\ table.open
    /\ LET r == get_datafiles(logsDir, logFiles)
       IN last' = Call("get_datafiles", <<>>, IF r.ok THEN "Ok" ELSE r.err,
                       IF r.ok THEN r.val ELSE {})
    /\ logFiles' = WriteFile(logFiles, next_log_file(logsDir, logFiles).val, <<>>)
    /\ UNCHANGED <<baseDir, logsDir, dataFiles, table, now, created, procs, inserted>>

GetDatafiles ==
    /\ table.open
    /\ LET r == get_datafiles(logsDir, logFiles)
       IN last' = Call("get_datafiles", <<>>, IF r.ok THEN "Ok" ELSE r.err,
                       IF r.ok THEN r.val ELSE {})
    /\ UNCHANGED <<fsVars, table, now, created, procs, inserted>>

\* the wall clock advances
Tick ==
    /\ now + 1 \in Times
    /\ now' = now + 1
    /\ UNCHANGED <<fsVars, table, created, last, procs, inserted>>

Init ==
    /\ baseDir = FALSE
    /\ logsDir = FALSE
    /\ dataFiles = <<>>
    /\ logFiles = <<>>
    /\ table = NoTable
    /\ now = 1
    /\ created = [set |-> FALSE]
    /\ last = Call("none", <<>>, "Ok", <<>>)
    /\ procs = [h \in Handles |-> IdleProc]
    /\ inserted = 0

Next ==
    \/ \E name \in TableNames, sql_schema \in ColumnLists :
          CreateTable(name, sql_schema)
    \/ \E name \in TableNames : ReadTable(name)
    \/ \E data \in Batches : Insert(data)
    \/ \E expr \in Exprs : Delete(expr)
    \/ GetDatafiles
    \/ Tick

Spec == Init /\ [][Next]_vars

---------------------------------------------------------------------------
(* Replay and read over drawn log directories                              *)

SampleMetadata ==
    CreateTableChecks("t", << <<"foo", "INT">>, <<"bar", "TEXT">> >>, 1).val.metadata

Paths == {DataFileName(0), DataFileName(1)}

\* the lines a drawn log file may hold; commitInfo is no variant of Action
Lines ==
    {ActionToJson(AddFor([name |-> p, size |-> 0], 1)) : p \in Paths}
    \cup {ActionToJson(Remove(p, TRUE)) : p \in Paths}
    \cup {ActionToJson(Metadata(SampleMetadata))}
    \cup {[key |-> "commitInfo", val |-> [operation |-> "WRITE"]]}

RECURSIVE SumUpTo(_, _)
SumUpTo(lens, k) == IF k = 0 THEN 0 ELSE lens[k] + SumUpTo(lens, k - 1)

\* versions 0..n-1, version k-1 holding lens[k] lines of flat, in order
MakeLogs(flat, lens) ==
    [name \in {log_file(k - 1) : k \in 1..Len(lens)} |->
        LET k == CHOOSE j \in 1..Len(lens) : log_file(j - 1) = name
        IN SubSeq(flat, SumUpTo(lens, k - 1) + 1, SumUpTo(lens, k))]

InitLog ==
    /\ baseDir = TRUE
    /\ logsDir = TRUE
    /\ dataFiles = <<>>
    /\ \E n \in 0..MaxFiles, total \in 0..MaxLines :
          \E flat \in [1..total -> Lines] :
             \E lens \in {l \in [1..n -> 0..total] : SumUpTo(l, n) = total} :
                logFiles = MakeLogs(flat, lens)
    /\ table = DeltaTable(SampleMetadata, "t")
    /\ now = 1
    /\ created = [set |-> FALSE]
    /\ last = Call("none", <<>>, "Ok", <<>>)
    /\ procs = [h \in Handles |-> IdleProc]
    /\ inserted = 0

NextLog ==
    \/ \E name \in TableNames : ReadTable(name)
    \/ GetDatafiles

SpecLog == InitLog /\ [][NextLog]_vars

---------------------------------------------------------------------------
(* Deletes on a table that inserts have filled                             *)

\* the batches every one of whose rows has the width of the schema
FullBatches == {data \in Batches : \A r \in 1..Len(data) : Len(data[r]) = 2}

Seeds == UNION {[1..n -> FullBatches] : n \in 0..MaxSeed}

SeedTable == CreateTableChecks("t", << <<"foo", "INT">>, <<"bar", "TEXT">> >>, 1).val

\* the files after create_table and the inserts of seed[1..k], in order
RECURSIVE Seeded(_, _)
Seeded(seed, k) ==
    IF k = 0
    THEN [files |-> <<>>,
          logs |-> WriteFile(<<>>, next_log_file(TRUE, <<>>).val,
                             <<ActionToJson(Metadata(SeedTable.metadata))>>)]
    ELSE LET s == Seeded(seed, k - 1)
             r == insert(SeedTable, TRUE, TRUE, s.files, s.logs, seed[k], 1)
         IN [files |-> r.files, logs |-> r.logs]

InitSeeded ==
    /\ baseDir = TRUE
    /\ logsDir = TRUE
    /\ \E seed \in Seeds :
          /\ dataFiles = Seeded(seed, Len(seed)).files
          /\ logFiles = Seeded(seed, Len(seed)).logs
          /\ inserted = Len(seed)
    /\ table = SeedTable
    /\ now = 1
    /\ created = [set |-> TRUE, metadata |-> SeedTable.metadata,
                  schema |-> MetadataSchema(SeedTable.metadata).val]
    /\ last = Call("none", <<>>, "Ok", <<>>)
    /\ procs = [h \in Handles |-> IdleProc]

\* at most MaxDeletes deletes follow the inserts: every call so far left one
\* log file
DeleteSeeded(expr) ==
    /\ Cardinality(DOMAIN logFiles) < 1 + inserted + MaxDeletes
    /\ DeleteCall(expr)

NextSeeded ==
    \/ \E expr \in Exprs : DeleteSeeded(expr)
    \/ Tick

SpecSeeded == InitSeeded /\ [][NextSeeded]_vars

---------------------------------------------------------------------------
(* Actions written to a JSON line and read back                            *)

\* the Action values drawn: each variant, over the values of its fields
ActionValues ==
    {Add(p, pv, size, t, dc) :
        p \in Paths, pv \in {EmptyMap, [day |-> "mon"]}, size \in {0, 2, 4},
        t \in Times, dc \in BOOLEAN}
    \cup {Remove(p, dc) : p \in Paths, dc \in BOOLEAN}
    \cup {Metadata(c.val.metadata) :
            c \in {c \in {CreateTableChecks("t", l, id) : l \in ColumnLists, id \in Ids} :
                      c.ok}}

InitCodec ==
    /\ baseDir = FALSE
    /\ logsDir = FALSE
    /\ dataFiles = <<>>
    /\ logFiles = <<>>
    /\ table = NoTable
    /\ now = 1
    /\ created = [set |-> FALSE]
    /\ \E a \in ActionValues : last = Call("draw", a, "Ok", <<>>)
    /\ procs = [h \in Handles |-> IdleProc]
    /\ inserted = 0

\* serde_json::to_string(&action)
Encode ==
    /\ last.op = "draw"
    /\ last' = Call("to_string", last.arg, "Ok", ActionToJson(last.arg))
    /\ UNCHANGED <<fsVars, table, now, created, procs, inserted>>

\* serde_json::from_str::<Action>(line) on the line written
Decode ==
    /\ last.op = "to_string"
    /\ LET r == ActionFromJson(last.out)
       IN last' = Call("from_str", [action |-> last.arg, line |-> last.out],
                       IF r.ok THEN "Ok" ELSE r.err,
                       IF r.ok THEN r.val ELSE <<>>)
    /\ UNCHANGED <<fsVars, table, now, created, procs, inserted>>

NextCodec ==
    \/ Encode
    \/ Decode

SpecCodec == InitCodec /\ [][NextCodec]_vars

---------------------------------------------------------------------------
(* The engine in a base directory that something else writes to as well    *)

\* an entry of the base directory that is no data file of the table
StrayName == [stem |-> [pad |-> 0, digits |-> <<7>>], ext |-> "txt"]

\* something other than the engine creates a file in the base directory
StrayEntry ==
    /\ baseDir
    /\ StrayName \notin DOMAIN dataFiles
    /\ dataFiles' = WriteFile(dataFiles, StrayName, <<>>)
    /\ last' = Call("stray", StrayName, "Ok", <<>>)
    /\ UNCHANGED <<baseDir, logsDir, logFiles, table, now, created, procs, inserted>>

NextEnv ==
    \/ Next
    \/ StrayEntry

SpecEnv == Init /\ [][NextEnv]_vars

---------------------------------------------------------------------------
(* Two handles on one table directory: every call is a sequence of steps,  *)
(* one per access to the directory, and the steps of two calls interleave  *)

RaceBatches == { << <<"1", "a">> >>, << <<"2", "b">> >> }

RaceSeeds == UNION {[1..n -> RaceBatches] : n \in 0..MaxRaceSeed}

\* the handle whose caller may delete; the other one only inserts
Deleters == {1}

\* the call of handle h returns res
Return(h, res) == [procs EXCEPT ![h].pc = "done", ![h].res = res]

\* history: a commit lands while the delete of another handle is between its
\* replay and its log write
MarkOverlap(ps, h) ==
    [g \in Handles |->
        IF g # h /\ ps[g].op = "delete" /\ ps[g].pc \notin {"idle", "done"}
        THEN [ps[g] EXCEPT !.overlapped = TRUE]
        ELSE ps[g]]

\* insert up to next_data_file: the DataFrame built, the directory counted
InsertBegin(h, data) ==
    /\ procs[h].pc = "idle"
    /\ table.open
    /\ LET schema == MetadataSchema(table.metadata)
           cols == InsertColumns(schema.val.fields, data)
           df == NewDataFrame(cols.val)
           data_file == next_data_file(baseDir, logsDir, dataFiles)
           p == [procs[h] EXCEPT !.op = "insert", !.arg = data]
       IN procs' = [procs EXCEPT ![h] =
              IF ~schema.ok THEN [p EXCEPT !.pc = "done", !.res = schema.err]
              ELSE IF ~cols.ok THEN [p EXCEPT !.pc = "done", !.res = cols.err]
              ELSE IF ~df.ok THEN [p EXCEPT !.pc = "done", !.res = df.err]
              ELSE IF ~data_file.ok
                   THEN [p EXCEPT !.pc = "done", !.res = data_file.err]
              ELSE [p EXCEPT !.pc = "insert_create", !.df = df.val,
                             !.data_file = data_file.val]]
    /\ UNCHANGED <<fsVars, table, now, created, last, inserted>>

\* mutant of InsertCreate: the file is not there yet when the call goes on
InsertCreateUnflushed(h) ==
    /\ procs[h].pc = "insert_create"
    /\ dataFiles' = dataFiles
    /\ procs' = [procs EXCEPT ![h].pc = "insert_next_log",
                              ![h].size = ParquetSize(procs[h].df)]
    /\ UNCHANGED <<baseDir, logsDir, logFiles, table, now, created, last, inserted>>

\* File::create and the parquet writer
InsertCreate(h) ==
    /\ procs[h].pc = "insert_create"
    /\ dataFiles' = WriteFile(dataFiles, procs[h].data_file, procs[h].df)
    /\ procs' = [procs EXCEPT ![h].pc = "insert_next_log",
                              ![h].size = ParquetSize(procs[h].df)]
    /\ UNCHANGED <<baseDir, logsDir, logFiles, table, now, created, last, inserted>>

\* next_log_file, then the clock read for the Add
InsertNextLog(h) ==
    /\ procs[h].pc = "insert_next_log"
    /\ LET nl == next_log_file(logsDir, logFiles)
       IN procs' = IF ~nl.ok THEN Return(h, nl.err)
                   ELSE [procs EXCEPT ![h].pc = "insert_write_log",
                                      ![h].log_name = nl.val, ![h].t = now]
    /\ UNCHANGED <<fsVars, table, now, created, last, inserted>>

\* fs::write of the log file, and the return
InsertWriteLog(h) ==
    /\ procs[h].pc = "insert_write_log"
    /\ logFiles' = WriteFile(logFiles, procs[h].log_name,
                      <<ActionToJson(AddFor([name |-> procs[h].data_file,
                                             size |-> procs[h].size],
                                            procs[h].t))>>)
    /\ procs' = MarkOverlap(Return(h, "Ok"), h)
    /\ inserted' = inserted + 1
    /\ last' = Call("insert", procs[h].arg, "Ok", <<>>)
    /\ UNCHANGED <<baseDir, logsDir, dataFiles, table, now, created>>

\* delete up to the loop: the replay, and the order the set is iterated in
DeleteBegin(h, expr) ==
    /\ procs[h].pc = "idle"
    /\ table.open
    /\ LET live == get_datafiles(logsDir, logFiles)
           p == [procs[h] EXCEPT !.op = "delete", !.arg = expr]
       IN IF ~live.ok
          THEN procs' = [procs EXCEPT ![h] =
                            [p EXCEPT !.pc = "done", !.res = live.err]]
          ELSE \E order \in Orders(live.val) :
                  procs' = [procs EXCEPT ![h] =
                               [p EXCEPT !.pc = "delete_scan",
                                         !.order = order, !.k = 1]]
    /\ UNCHANGED <<fsVars, table, now, created, last, inserted>>

\* one turn of the loop up to the height test: the file scanned and filtered
DeleteScan(h) ==
    /\ procs[h].pc = "delete_scan"
    /\ procs[h].k <= Len(procs[h].order)
    /\ LET file == procs[h].order[procs[h].k]
       IN IF ~baseDir \/ file \notin DOMAIN dataFiles
          THEN procs' = Return(h, "PolarsError")
          ELSE LET df == dataFiles[file]
                   updated == FilterNot(df, procs[h].arg)
               IN IF ~updated.ok THEN procs' = Return(h, updated.err)
                  ELSE IF Height(updated.val) = Height(df)
                  THEN procs' = [procs EXCEPT ![h].k = @ + 1]
                  ELSE procs' = [procs EXCEPT ![h].pc = "delete_next_data",
                                              ![h].df = updated.val]
    /\ UNCHANGED <<fsVars, table, now, created, last, inserted>>

\* write_data_file, first half: next_data_file
DeleteNextData(h) ==
    /\ procs[h].pc = "delete_next_data"
    /\ LET data_file == next_data_file(baseDir, logsDir, dataFiles)
       IN procs' = IF ~data_file.ok THEN Return(h, data_file.err)
                   ELSE [procs EXCEPT ![h].pc = "delete_create",
                                      ![h].data_file = data_file.val]
    /\ UNCHANGED <<fsVars, table, now, created, last, inserted>>

\* mutant of DeleteCreate: every rewritten file is committed as it is written
DeleteCreateLogged(h) ==
    /\ procs[h].pc = "delete_create"
    /\ dataFiles' = WriteFile(dataFiles, procs[h].data_file, procs[h].df)
    /\ logFiles' = WriteFile(logFiles, next_log_file(logsDir, logFiles).val,
                      <<ActionToJson(AddFor([name |-> procs[h].data_file,
                                             size |-> ParquetSize(procs[h].df)],
                                            now))>>)
    /\ procs' = [procs EXCEPT
          ![h].pc = "delete_scan",
          ![h].created_files = Append(@, [name |-> procs[h].data_file,
                                          size |-> ParquetSize(procs[h].df)]),
          ![h].deleted_files = Append(@, procs[h].order[procs[h].k]),
          ![h].k = @ + 1]
    /\ UNCHANGED <<baseDir, logsDir, table, now, created, last, inserted>>

\* write_data_file, second half, and the two pushes that end the turn
DeleteCreate(h) ==
    /\ procs[h].pc = "delete_create"
    /\ dataFiles' = WriteFile(dataFiles, procs[h].data_file, procs[h].df)
    /\ procs' = [procs EXCEPT
          ![h].pc = "delete_scan",
          ![h].created_files = Append(@, [name |-> procs[h].data_file,
                                          size |-> ParquetSize(procs[h].df)]),
          ![h].deleted_files = Append(@, procs[h].order[procs[h].k]),
          ![h].k = @ + 1]
    /\ UNCHANGED <<baseDir, logsDir, logFiles, table, now, created, last, inserted>>

\* after the loop: the clock read once, then next_log_file
DeleteNextLog(h) ==
    /\ procs[h].pc = "delete_scan"
    /\ procs[h].k > Len(procs[h].order)
    /\ LET nl == next_log_file(logsDir, logFiles)
       IN procs' = IF ~nl.ok THEN Return(h, nl.err)
                   ELSE [procs EXCEPT ![h].pc = "delete_write_log",
                                      ![h].log_name = nl.val, ![h].t = now]
    /\ UNCHANGED <<fsVars, table, now, created, last, inserted>>

\* mutant of DeleteWriteLog: a commit made since the replay is a conflict
DeleteWriteLogChecked(h) ==
    /\ procs[h].pc = "delete_write_log"
    /\ logFiles' = IF procs[h].overlapped THEN logFiles
                   ELSE WriteFile(logFiles, procs[h].log_name,
                           DeleteActions(procs[h].created_files,
                                         procs[h].deleted_files, procs[h].t))
    /\ procs' = IF procs[h].overlapped THEN Return(h, "Conflict")
                ELSE MarkOverlap(Return(h, "Ok"), h)
    /\ last' = Call("delete", procs[h].arg,
                    IF procs[h].overlapped THEN "Conflict" ELSE "Ok", <<>>)
    /\ UNCHANGED <<baseDir, logsDir, dataFiles, table, now, created, inserted>>

\* fs::write of the log file, and the return
DeleteWriteLog(h) ==
    /\ procs[h].pc = "delete_write_log"
    /\ logFiles' = WriteFile(logFiles, procs[h].log_name,
                      DeleteActions(procs[h].created_files,
                                    procs[h].deleted_files, procs[h].t))
    /\ procs' = MarkOverlap(Return(h, "Ok"), h)
    /\ last' = Call("delete", procs[h].arg, "Ok", <<>>)
    /\ UNCHANGED <<baseDir, logsDir, dataFiles, table, now, created, inserted>>

InitRace ==
    /\ baseDir = TRUE
    /\ logsDir = TRUE
    /\ \E seed \in RaceSeeds :
          /\ dataFiles = Seeded(seed, Len(seed)).files
          /\ logFiles = Seeded(seed, Len(seed)).logs
          /\ inserted = Len(seed)
    /\ table = SeedTable
    /\ now = 1
    /\ created = [set |-> TRUE, metadata |-> SeedTable.metadata,
                  schema |-> MetadataSchema(SeedTable.metadata).val]
    /\ last = Call("none", <<>>, "Ok", <<>>)
    /\ procs = [h \in Handles |-> IdleProc]

NextRace ==
    \/ \E h \in Handles, data \in RaceBatches : InsertBegin(h, data)
    \/ \E h \in Handles : InsertCreate(h)
    \/ \E h \in Handles : InsertNextLog(h)
    \/ \E h \in Handles : InsertWriteLog(h)
    \/ \E h \in Deleters, expr \in Exprs : DeleteBegin(h, expr)
    \/ \E h \in Handles : DeleteScan(h)
    \/ \E h \in Handles : DeleteNextData(h)
    \/ \E h \in Handles : DeleteCreate(h)
    \/ \E h \in Handles : DeleteNextLog(h)
    \/ \E h \in Handles : DeleteWriteLog(h)
    \/ Tick

SpecRace == InitRace /\ [][NextRace]_vars

---------------------------------------------------------------------------
(* One handle whose file system calls may fail: every call is a sequence   *)
(* of steps, one per access to the directory, and a step either happens    *)
(* or fails and the `?` behind it returns the error to the caller.  A      *)
(* write is one step: the file appears with its whole content or not at    *)
(* all.                                                                    *)

\* the single writer
Writer == 1

FaultColumnLists ==
    { << <<"foo", "INT">>, <<"bar", "TEXT">> >>,
      << <<"foo", "INT">>, <<"foo", "TEXT">> >> }

FaultBatches == { << <<"1", "a">> >>, << <<"1", "a">>, <<"2", "b">> >> }

\* create_table up to and with the create_dir of the base directory
CreateBegin(h, name, sql_schema) ==
    /\ procs[h].pc = "idle"
    /\ \E id \in Ids :
          LET c == CreateTableChecks(name, sql_schema, id)
              p == [procs[h] EXCEPT !.op = "create_table",
                                    !.arg = [name |-> name, schema |-> sql_schema]]
          IN IF ~c.ok
             THEN /\ procs' = [procs EXCEPT ![h] =
                                  [p EXCEPT !.pc = "done", !.res = c.err]]
                  /\ UNCHANGED baseDir
             ELSE IF ~create_dir(baseDir).ok
             THEN /\ procs' = [procs EXCEPT ![h] =
                                  [p EXCEPT !.pc = "done",
                                            !.res = "TableAlreadyExists"]]
                  /\ UNCHANGED baseDir
             ELSE /\ baseDir' = TRUE
                  /\ procs' = [procs EXCEPT ![h] =
                                  [p EXCEPT !.pc = "create_logs_dir",
                                            !.table = c.val]]
    /\ UNCHANGED <<logsDir, dataFiles, logFiles, table, now, created, last, inserted>>

\* fs::create_dir of the log directory
CreateLogsDir(h) ==
    /\ procs[h].pc = "create_logs_dir"
    /\ logsDir' = TRUE
    /\ procs' = [procs EXCEPT ![h].pc = "create_write_log"]
    /\ UNCHANGED <<baseDir, dataFiles, logFiles, table, now, created, last, inserted>>

\* next_log_file and the fs::write of version 0, and the return of the handle
CreateWriteLog(h) ==
    /\ procs[h].pc = "create_write_log"
    /\ LET nl == next_log_file(logsDir, logFiles)
       IN IF ~nl.ok
          THEN /\ procs' = Return(h, nl.err)
               /\ UNCHANGED <<logFiles, table, created, last>>
          ELSE /\ logFiles' = WriteFile(logFiles, nl.val,
                      <<ActionToJson(Metadata(procs[h].table.metadata))>>)
               /\ table' = procs[h].table
               /\ created' = [set |-> TRUE, metadata |-> procs[h].table.metadata,
                              schema |-> from_sql(procs[h].arg.schema).val]
               /\ last' = Call("create_table", procs[h].arg, "Ok", <<>>)
               /\ procs' = Return(h, "Ok")
    /\ UNCHANGED <<baseDir, logsDir, dataFiles, now, inserted>>

\* the steps that begin with a file system call: create_dir, read_dir,
\* File::create, scan_parquet, fs::write
IoSteps == {"create_logs_dir", "create_write_log", "insert_create",
            "insert_next_log", "insert_write_log", "delete_scan",
            "delete_next_data", "delete_create", "delete_write_log"}

\* the file system call a step begins with fails: the call returns the error
\* and nothing is written
IoFails(h) ==
    /\ procs[h].pc \in IoSteps
    /\ procs' = Return(h, "IOError")
    /\ UNCHANGED <<fsVars, table, now, created, last, inserted>>

\* write_data_file: File::create makes the file, the parquet writer fails on
\* it, and the file stays behind without a DataFrame in it
ParquetFails(h) ==
    /\ procs[h].pc \in {"insert_create", "delete_create"}
    /\ dataFiles' = WriteFile(dataFiles, procs[h].data_file, <<>>)
    /\ procs' = Return(h, "PolarsError")
    /\ UNCHANGED <<baseDir, logsDir, logFiles, table, now, created, last, inserted>>

\* the call has returned and the caller goes on to its next call
Again(h) ==
    /\ procs[h].pc = "done"
    /\ procs' = [procs EXCEPT ![h] = IdleProc]
    /\ UNCHANGED <<fsVars, table, now, created, last, inserted>>

\* a call that writes begins while the directories are within the bounds
Room ==
    /\ Cardinality(DOMAIN logFiles) <= MaxVersions
    /\ Cardinality(DOMAIN dataFiles) < MaxDataFiles

NextFault ==
    \/ \E name \in TableNames, sql_schema \in FaultColumnLists :
          CreateBegin(Writer, name, sql_schema)
    \/ CreateLogsDir(Writer)
    \/ CreateWriteLog(Writer)
    \/ \E data \in FaultBatches : Room /\ InsertBegin(Writer, data)
    \/ InsertCreate(Writer)
    \/ InsertNextLog(Writer)
    \/ InsertWriteLog(Writer)
    \/ \E expr \in Exprs : Room /\ DeleteBegin(Writer, expr)
    \/ DeleteScan(Writer)
    \/ DeleteNextData(Writer)
    \/ DeleteCreate(Writer)
    \/ DeleteNextLog(Writer)
    \/ DeleteWriteLog(Writer)
    \/ IoFails(Writer)
    \/ ParquetFails(Writer)
    \/ Again(Writer)

SpecFault == Init /\ [][NextFault]_vars

---------------------------------------------------------------------------
(* Vocabulary of the properties                                            *)

\* a step of the named call: every call but Tick records itself in last
CallStep(op) == last'.op = op /\ now' = now

\* the version a log file name stands for
VersionOf(name) == CHOOSE v \in 0..(MaxVersions + MaxFiles) : log_file(v) = name

\* the positions <<file, line>> of a log directory
Positions(logs) ==
    UNION {{<<f, i>> : i \in 1..Len(logs[f])} : f \in DOMAIN logs}

\* position e is met before position d by a scan of descending version
MetBefore(e, d) ==
    \/ VersionOf(e[1]) > VersionOf(d[1])
    \/ e[1] = d[1] /\ e[2] < d[2]

\* the paths with an Add that no Remove of the same path is met before
LiveByDefinition(logs) ==
    {logs[e[1]][e[2]].val.path : e \in
        {e \in Positions(logs) :
            /\ logs[e[1]][e[2]].key = "add"
            /\ ~\E d \in Positions(logs) :
                  /\ logs[d[1]][d[2]].key = "remove"
                  /\ logs[d[1]][d[2]].val.path = logs[e[1]][e[2]].val.path
                  /\ MetBefore(d, e)}}

SqlKeywords == {"TEXT", "BIGINT", "INT", "SMALLINT", "TINYINT", "FLOAT",
                "DOUBLE", "BOOL", "DATE", "TIMESTAMP"}

AllResolve(sql_schema) ==
    \A i \in 1..Len(sql_schema) : to_uppercase(sql_schema[i][2]) \in SqlKeywords

NamesDistinct(sql_schema) ==
    \A i, j \in 1..Len(sql_schema) : i # j => sql_schema[i][1] # sql_schema[j][1]

\* the rows of a data file, each a function from column name to value
RowsOf(df) ==
    [r \in 1..Height(df) |->
        [c \in {df[i].name : i \in 1..Len(df)} |->
            df[CHOOSE i \in 1..Len(df) : df[i].name = c].values[r]]]

Matches(row, expr) == expr.col \in DOMAIN row /\ row[expr.col] = expr.val

HasMatch(df, expr) == \E r \in 1..Height(df) : Matches(RowsOf(df)[r], expr)

\* the rows of df for which expr does not hold, in order
Remaining(df, expr) == SelectSeq(RowsOf(df), LAMBDA row : ~Matches(row, expr))

\* the live set of a log directory as the engine computes it
Live(ld, logs) == get_datafiles(ld, logs).val

---------------------------------------------------------------------------
(* Properties                                                              *)

\* C1: a successful get_datafiles returns exactly the paths that have an Add
\* met, in a scan of descending version (lines top to bottom), when no Remove
\* of the same path has been met; Metadata lines change nothing.
C1_ReplayIsDescendingScan ==
    (last.op = "get_datafiles" /\ last.res = "Ok")
        => last.out = LiveByDefinition(logFiles)

\* C1 witness: a replay that succeeded over a log where a newer Remove
\* suppresses an older Add while another path is live
C1_Witness ==
    /\ last.op = "get_datafiles"
    /\ last.res = "Ok"
    /\ last.out # {}
    /\ \E e, d \in Positions(logFiles) :
          /\ logFiles[e[1]][e[2]].key = "add"
          /\ logFiles[d[1]][d[2]].key = "remove"
          /\ logFiles[d[1]][d[2]].val.path = logFiles[e[1]][e[2]].val.path
          /\ VersionOf(d[1]) > VersionOf(e[1])
          /\ logFiles[e[1]][e[2]].val.path \notin last.out

\* the content of a file is one line, and that line a Metadata action
IsSingleMetadata(contents) == Len(contents) = 1 /\ contents[1].key = "metaData"

\* C10: read_table on a log whose version 0 is not a single Metadata action
\* fails with InvalidTable, whatever the later versions hold.
C10_ReadRejectsNonMetadata ==
    (/\ last.op = "read_table"
     /\ log_file(0) \in DOMAIN logFiles
     /\ ~IsSingleMetadata(logFiles[log_file(0)]))
        => last.res = "InvalidTable"

\* C10 witness: version 0 starts with a Metadata line followed by another
\* line, a later version is a single Metadata action, and read_table failed
C10_Witness ==
    /\ last.op = "read_table"
    /\ last.res = "InvalidTable"
    /\ log_file(0) \in DOMAIN logFiles
    /\ Len(logFiles[log_file(0)]) = 2
    /\ logFiles[log_file(0)][1].key = "metaData"
    /\ \E f \in DOMAIN logFiles : f # log_file(0) /\ IsSingleMetadata(logFiles[f])

\* C2: a delete that succeeded takes every live file F holding a matching
\* row out of the live set, puts a newly written file holding F's remaining
\* rows into it, and leaves F's own file in the base directory as it was.
C2_DeleteTombstones ==
    [][(CallStep("delete") /\ last'.res = "Ok") =>
        \A F \in Live(logsDir, logFiles) :
            HasMatch(dataFiles[F], last'.arg) =>
                /\ F \notin Live(logsDir', logFiles')
                /\ \E G \in Live(logsDir', logFiles') :
                      /\ G \notin DOMAIN dataFiles
                      /\ G \in DOMAIN dataFiles'
                      /\ RowsOf(dataFiles'[G]) = Remaining(dataFiles[F], last'.arg)
                /\ F \in DOMAIN dataFiles'
                /\ dataFiles'[F] = dataFiles[F]]_vars

\* C2 witness: a delete succeeded, its commit removes a path whose file is
\* still on disk and not live, and adds a live file that kept a row
C2_Witness ==
    /\ last.op = "delete"
    /\ last.res = "Ok"
    /\ \E e, d \in Positions(logFiles) :
          /\ e[1] = d[1]
          /\ logFiles[e[1]][e[2]].key = "add"
          /\ logFiles[d[1]][d[2]].key = "remove"
          /\ logFiles[d[1]][d[2]].val.path \in DOMAIN dataFiles
          /\ logFiles[d[1]][d[2]].val.path \notin Live(logsDir, logFiles)
          /\ logFiles[e[1]][e[2]].val.path \in Live(logsDir, logFiles)
          /\ Height(dataFiles[logFiles[e[1]][e[2]].val.path]) >= 1

\* no live file holds a row for which expr holds
NoMatch(expr) ==
    \A F \in Live(logsDir, logFiles) :
        F \in DOMAIN dataFiles => ~HasMatch(dataFiles[F], expr)

\* C3: a delete whose predicate matches no row of any live file writes no
\* data file, appends no Remove action and leaves the number of entries of
\* the log directory unchanged.
C3_NoMatchDeleteWritesNothing ==
    [][(CallStep("delete") /\ last'.res = "Ok" /\ NoMatch(last'.arg)) =>
        /\ dataFiles' = dataFiles
        /\ \A d \in Positions(logFiles') :
              logFiles'[d[1]][d[2]].key = "remove" => d \in Positions(logFiles)
        /\ Cardinality(DOMAIN logFiles') = Cardinality(DOMAIN logFiles)]_vars

\* C4: an insert that succeeded wrote one new data file and one new log file
\* holding the single Add (dataChange true) of that file, and left the other
\* files alone: the live set is the one before plus the new path, so one path
\* right after create.
C4_InsertAddsOneFile ==
    [][(CallStep("insert") /\ last'.res = "Ok") =>
        \E p \in DOMAIN dataFiles' \ DOMAIN dataFiles :
        \E l \in DOMAIN logFiles' \ DOMAIN logFiles :
            /\ DOMAIN dataFiles' = DOMAIN dataFiles \cup {p}
            /\ \A f \in DOMAIN dataFiles : dataFiles'[f] = dataFiles[f]
            /\ DOMAIN logFiles' = DOMAIN logFiles \cup {l}
            /\ \A f \in DOMAIN logFiles : logFiles'[f] = logFiles[f]
            /\ Len(logFiles'[l]) = 1
            /\ logFiles'[l][1].key = "add"
            /\ logFiles'[l][1].val.path = p
            /\ logFiles'[l][1].val.dataChange = TRUE
            /\ p \notin Live(logsDir, logFiles)
            /\ get_datafiles(logsDir', logFiles')
                 = Ok(Live(logsDir, logFiles) \cup {p})
            /\ (Cardinality(DOMAIN logFiles) = 1
                  => Cardinality(Live(logsDir', logFiles')) = 1)]_vars

\* C4 witness: an insert succeeded on a table that already held a live file
C4_Witness ==
    /\ last.op = "insert"
    /\ last.res = "Ok"
    /\ Cardinality(Live(logsDir, logFiles)) = 2

\* C5: after a successful create_table the log directory holds version 0
\* alone, that file is the single Metadata action of the new table, the base
\* directory holds no data file and the live set is empty.
C5_CreateLeavesOneLogFile ==
    (last.op = "create_table" /\ last.res = "Ok") =>
        /\ baseDir /\ logsDir
        /\ DOMAIN logFiles = {log_file(0)}
        /\ IsSingleMetadata(logFiles[log_file(0)])
        /\ ActionFromJson(logFiles[log_file(0)][1]) = Ok(Metadata(table.metadata))
        /\ DOMAIN dataFiles = {}
        /\ get_datafiles(logsDir, logFiles) = Ok({})

\* C5 witness: create_table succeeded for the two-column list
C5_Witness ==
    /\ last.op = "create_table"
    /\ last.res = "Ok"
    /\ Len(last.arg.schema) = 2
    /\ table.open

\* C6 as claimed: create_table for a name whose base directory exists
\* returns TableAlreadyExists and changes no file.
C6_Original ==
    [][(CallStep("create_table") /\ baseDir) =>
        (last'.res = "TableAlreadyExists" /\ UNCHANGED fsVars)]_vars

\* C6 as amended: create_table for a name whose base directory exists changes
\* no file; it returns TableAlreadyExists when the column list passes the
\* schema checks, which come first: InvalidType when a keyword does not
\* resolve, InvalidTable when all resolve and two names are equal.
C6_ExistingTableUntouched ==
    [][(CallStep("create_table") /\ baseDir) =>
        /\ UNCHANGED fsVars
        /\ (AllResolve(last'.arg.schema) /\ NamesDistinct(last'.arg.schema))
              => last'.res = "TableAlreadyExists"
        /\ ~AllResolve(last'.arg.schema) => last'.res = "InvalidType"
        /\ (AllResolve(last'.arg.schema) /\ ~NamesDistinct(last'.arg.schema))
              => last'.res = "InvalidTable"]_vars

\* C6 witness: TableAlreadyExists on a table that an insert and a delete
\* have been applied to since its creation
C6_Witness ==
    /\ last.op = "create_table"
    /\ last.res = "TableAlreadyExists"
    /\ DOMAIN dataFiles # {}
    /\ Cardinality(DOMAIN logFiles) = 3

\* C7: create_table with a keyword that does not resolve returns InvalidType,
\* from_sql yielding the error and no schema, and no directory or file is
\* created.
C7_UnknownKeywordCreatesNothing ==
    [][(CallStep("create_table") /\ ~AllResolve(last'.arg.schema)) =>
        /\ last'.res = "InvalidType"
        /\ from_sql(last'.arg.schema) = Err("InvalidType")
        /\ UNCHANGED fsVars]_vars

\* C7 witness: InvalidType for a list whose first keyword resolves and whose
\* second does not, with no table directory in existence
C7_Witness ==
    /\ last.op = "create_table"
    /\ last.res = "InvalidType"
    /\ Len(last.arg.schema) = 2
    /\ to_uppercase(last.arg.schema[1][2]) \in SqlKeywords
    /\ ~baseDir /\ ~logsDir
    /\ DOMAIN logFiles = {} /\ DOMAIN dataFiles = {}

\* C8: create_table with two columns of one name, every keyword resolving,
\* returns InvalidTable and creates no directory or file; from_sql succeeds
\* on the list and is_valid rejects its schema.
C8_DuplicateNamesCreateNothing ==
    [][(/\ CallStep("create_table")
        /\ AllResolve(last'.arg.schema)
        /\ ~NamesDistinct(last'.arg.schema)) =>
        /\ last'.res = "InvalidTable"
        /\ from_sql(last'.arg.schema).ok
        /\ Len(from_sql(last'.arg.schema).val.fields) = Len(last'.arg.schema)
        /\ ~SchemaIsValid(from_sql(last'.arg.schema).val)
        /\ UNCHANGED fsVars]_vars

\* C8 witness: InvalidTable for a list with a repeated name, with no table
\* directory in existence
C8_Witness ==
    /\ last.op = "create_table"
    /\ last.res = "InvalidTable"
    /\ ~NamesDistinct(last.arg.schema)
    /\ ~baseDir /\ ~logsDir
    /\ DOMAIN logFiles = {} /\ DOMAIN dataFiles = {}

\* C9: read_table on a created table succeeds, whatever inserts and deletes
\* followed, and its handle holds the metadata create_table built: the id,
\* the name, and the schema fields with their types in order.
C9_ReadReturnsCreatedMetadata ==
    (last.op = "read_table" /\ created.set) =>
        /\ last.res = "Ok"
        /\ table.open
        /\ table.metadata = created.metadata
        /\ table.metadata.id = created.metadata.id
        /\ table.metadata.name = created.metadata.name
        /\ MetadataSchema(table.metadata) = Ok(created.schema)

\* C9 witness: read_table succeeded on a two-column table after an insert
\* and a delete that removed a path
C9_Witness ==
    /\ last.op = "read_table"
    /\ last.res = "Ok"
    /\ created.set
    /\ Len(created.schema.fields) = 2
    /\ created.schema.fields[1].typ = "Integer"
    /\ created.schema.fields[2].typ = "String"
    /\ Cardinality(DOMAIN logFiles) = 3
    /\ \E d \in Positions(logFiles) : logFiles[d[1]][d[2]].key = "remove"

\* C11: a delete that succeeded and rewrote a file appended exactly one log
\* file, the next version; its lines are the Adds of the files written, then
\* the Removes of the paths replaced, as many of the one as of the other, and
\* every Add carries the one modification_time read for the commit.
C11_DeleteCommitShape ==
    [][(CallStep("delete") /\ last'.res = "Ok" /\ dataFiles' # dataFiles) =>
        LET l == log_file(Cardinality(DOMAIN logFiles))
            written == DOMAIN dataFiles' \ DOMAIN dataFiles
            replaced == {F \in Live(logsDir, logFiles) :
                            HasMatch(dataFiles[F], last'.arg)}
        IN /\ l \notin DOMAIN logFiles
           /\ DOMAIN logFiles' = DOMAIN logFiles \cup {l}
           /\ \A f \in DOMAIN logFiles : logFiles'[f] = logFiles[f]
           /\ \E n \in 1..Cardinality(written) :
                 /\ Len(logFiles'[l]) = 2 * n
                 /\ \A i \in 1..n :
                       /\ logFiles'[l][i].key = "add"
                       /\ logFiles'[l][i].val.modificationTime = now
                       /\ logFiles'[l][n + i].key = "remove"
                 /\ {logFiles'[l][i].val.path : i \in 1..n} = written
                 /\ {logFiles'[l][n + i].val.path : i \in 1..n} = replaced
                 /\ Cardinality(written) = n
                 /\ Cardinality(replaced) = n]_vars

\* C11 witness: a delete committed two Adds followed by two Removes
C11_Witness ==
    /\ last.op = "delete"
    /\ last.res = "Ok"
    /\ \E l \in DOMAIN logFiles :
          /\ Len(logFiles[l]) = 4
          /\ logFiles[l][1].key = "add" /\ logFiles[l][2].key = "add"
          /\ logFiles[l][3].key = "remove" /\ logFiles[l][4].key = "remove"
          /\ logFiles[l][1].val.modificationTime = 2

\* the number of fields of the schema the handle held carries
FieldCount == Len(MetadataSchema(table.metadata).val.fields)

\* C12: an insert with a row whose width is not the number of schema fields,
\* shorter or longer, returns an error and writes no data file and no log
\* file.
C12_RowWidthMismatchFails ==
    [][(/\ CallStep("insert")
        /\ \E r \in 1..Len(last'.arg) : Len(last'.arg[r]) # FieldCount) =>
        /\ last'.res \notin {"Ok", "panic"}
        /\ UNCHANGED fsVars]_vars

\* the Add lines of a log directory, and the paths they name
AddPositions(logs) == {e \in Positions(logs) : logs[e[1]][e[2]].key = "add"}

AddPaths(logs) == {logs[e[1]][e[2]].val.path : e \in AddPositions(logs)}

\* both handles ran an insert that returned Ok
BothInserted ==
    \A h \in Handles :
        procs[h].pc = "done" /\ procs[h].op = "insert" /\ procs[h].res = "Ok"

\* C13: when two handles insert at the same time, both inserts may return Ok
\* having computed the same data file name or the same log file name, and
\* whenever they do the log holds fewer Add lines, or fewer distinct paths,
\* than inserts have succeeded: a data file or an Add was overwritten.
C13_ConcurrentInsertsCollide ==
    (/\ BothInserted
     /\ \/ procs[1].data_file = procs[2].data_file
        \/ procs[1].log_name = procs[2].log_name) =>
        \/ Cardinality(AddPositions(logFiles)) < inserted
        \/ Cardinality(AddPaths(logFiles)) < inserted

\* C13 witness: both inserts returned Ok on the same data file name and the
\* same log file name; one Add for one file is what is left of the two
C13_Witness ==
    /\ BothInserted
    /\ procs[1].data_file = procs[2].data_file
    /\ procs[1].log_name = procs[2].log_name
    /\ procs[1].arg # procs[2].arg
    /\ Cardinality(AddPositions(logFiles)) = inserted - 1
    /\ Cardinality(DOMAIN dataFiles) = inserted - 1

\* the DataFrame insert builds from a batch for the table created
BatchFrame(data) == InsertColumns(created.schema.fields, data).val

\* the delete of handle 1 has returned, and the insert of handle 2 committed
\* between its replay and its log write; the batch holds a row the predicate
\* of the delete matches
DeleteOverlapped ==
    /\ procs[1].op = "delete"
    /\ procs[1].pc = "done"
    /\ procs[1].overlapped
    /\ procs[2].op = "insert"
    /\ HasMatch(BatchFrame(procs[2].arg), procs[1].arg)

\* the names the two calls computed are different ones
NoNameShared ==
    /\ procs[1].log_name # procs[2].log_name
    /\ \A i \in 1..Len(procs[1].created_files) :
          procs[1].created_files[i].name # procs[2].data_file

\* C14 as claimed: a delete that an insert of another handle committed into
\* returns Ok, and the matching rows of the inserted file are in a live file.
C14_Original ==
    DeleteOverlapped =>
        /\ procs[1].res = "Ok"
        /\ \E F \in Live(logsDir, logFiles) :
              F \in DOMAIN dataFiles /\ HasMatch(dataFiles[F], procs[1].arg)

\* C14 as amended: a delete that an insert of another handle committed into
\* returns Ok; when the two calls computed no common data file name and no
\* common log file name, the inserted file is live and holds its matching
\* rows.
C14_DeleteMissesConcurrentInsert ==
    DeleteOverlapped =>
        /\ procs[1].res = "Ok"
        /\ NoNameShared =>
              /\ procs[2].data_file \in Live(logsDir, logFiles)
              /\ dataFiles[procs[2].data_file] = BatchFrame(procs[2].arg)
              /\ HasMatch(dataFiles[procs[2].data_file], procs[1].arg)

\* C14 witness: the delete rewrote a file of the table, the insert committed
\* in between, no name was shared, and the inserted file is live with a row
\* the predicate matches
C14_Witness ==
    /\ DeleteOverlapped
    /\ NoNameShared
    /\ Len(procs[1].created_files) = 1
    /\ procs[2].data_file \in Live(logsDir, logFiles)
    /\ HasMatch(dataFiles[procs[2].data_file], procs[1].arg)

\* C15: get_datafiles creates, changes and removes no file or directory, and
\* a call that follows another with no call in between returns what the
\* first returned.
C15_ReplayReadOnlyIdempotent ==
    [][CallStep("get_datafiles") =>
        /\ UNCHANGED fsVars
        /\ last.op = "get_datafiles" =>
              (last'.res = last.res /\ last'.out = last.out)]_vars

\* C15 witness: get_datafiles returned a live file of a table that holds a
\* tombstoned file as well
C15_Witness ==
    /\ last.op = "get_datafiles"
    /\ last.res = "Ok"
    /\ last.out # {}
    /\ last.out # DOMAIN dataFiles
    /\ last.out = Live(logsDir, logFiles)

\* the index after the largest one a data file of the directory carries
NextFreeIndex(files) ==
    LET used == {i \in 0..(2 * MaxVersions) : DataFileName(i) \in DOMAIN files}
    IN IF used = {} THEN 0 ELSE (CHOOSE i \in used : \A j \in used : j <= i) + 1

\* C16: the index in the name of the data file an insert writes is the number
\* of Add actions committed so far, or the largest index in use plus one,
\* whatever other entries the base directory holds.
C16_IndexFromCounter ==
    [][(CallStep("insert") /\ last'.res = "Ok") =>
        \E p \in DOMAIN dataFiles' \ DOMAIN dataFiles :
            \/ p = DataFileName(Cardinality(AddPositions(logFiles)))
            \/ p = DataFileName(NextFreeIndex(dataFiles))]_vars

\* the log files that hold a Metadata line
MetadataHolders(logs) ==
    {f \in DOMAIN logs : \E i \in 1..Len(logs[f]) : logs[f][i].key = "metaData"}

\* C17: under a single writer no call changes or removes a log file that
\* exists, so every version keeps its content in all later states, and
\* version 0 is the only log file that holds a Metadata action.
C17_LogFilesImmutable ==
    /\ [](MetadataHolders(logFiles) \subseteq {log_file(0)})
    /\ [](DOMAIN logFiles # {} => MetadataHolders(logFiles) = {log_file(0)})
    /\ [][\A f \in DOMAIN logFiles :
             f \in DOMAIN logFiles' /\ logFiles'[f] = logFiles[f]]_vars

\* C17 witness: three versions exist, written by create, insert and delete,
\* and a create_table was attempted on the table since
C17_Witness ==
    /\ Cardinality(DOMAIN logFiles) = 3
    /\ \E d \in Positions(logFiles) : logFiles[d[1]][d[2]].key = "remove"
    /\ \E e \in Positions(logFiles) : logFiles[e[1]][e[2]].key = "add"
    /\ last.op = "create_table"
    /\ MetadataHolders(logFiles) = {log_file(0)}

\* C18: an Action written to its JSON line and read back is the Action
\* written, for each of Add, Remove and Metadata; the line of each variant
\* carries the label of that variant and no other, "metaData" for Metadata.
C18_ActionRoundTrip ==
    /\ last.op = "to_string" =>
          /\ last.arg.tag = "Add" <=> last.out.key = "add"
          /\ last.arg.tag = "Remove" <=> last.out.key = "remove"
          /\ last.arg.tag = "Metadata" <=> last.out.key = "metaData"
    /\ last.op = "from_str" =>
          /\ last.res = "Ok"
          /\ last.out = last.arg.action
          /\ last.out.tag = last.arg.action.tag

\* C18 witness: a Metadata action read back from a line labelled metaData
C18_Witness ==
    /\ last.op = "from_str"
    /\ last.res = "Ok"
    /\ last.arg.line.key = "metaData"
    /\ last.out.tag = "Metadata"
    /\ last.out.metadata.id = 2

\* the Add and Remove lines of a log directory that name path p
PathPositions(logs, p) ==
    {e \in Positions(logs) :
        logs[e[1]][e[2]].key \in {"add", "remove"} /\ logs[e[1]][e[2]].val.path = p}

\* position d was committed before position e: an older version, or the same
\* file further up
CommittedBefore(d, e) ==
    \/ VersionOf(d[1]) < VersionOf(e[1])
    \/ d[1] = e[1] /\ d[2] < e[2]

\* the paths whose last action in commit order is an Add
ForwardLive(logs) ==
    {p \in AddPaths(logs) :
        \E e \in PathPositions(logs, p) :
            /\ logs[e[1]][e[2]].key = "add"
            /\ \A d \in PathPositions(logs, p) : d = e \/ CommittedBefore(d, e)}

\* C19: on every log a single writer's create, inserts and deletes produce,
\* the descending scan of get_datafiles returns the set that applying the
\* actions in commit order gives, Add putting its path in and Remove taking
\* it out: the paths whose last action is an Add.
C19_ScanEqualsForwardReplay ==
    get_datafiles(logsDir, logFiles) = Ok(ForwardLive(logFiles))

\* C19 witness: a log of inserts and two deletes in which a file written by
\* the first delete was replaced by the second, two files being live
C19_Witness ==
    /\ last.op = "delete"
    /\ last.res = "Ok"
    /\ Cardinality(Live(logsDir, logFiles)) = 2
    /\ \E e, d \in Positions(logFiles) :
          /\ VersionOf(e[1]) > 0
          /\ Len(logFiles[e[1]]) > 1
          /\ logFiles[e[1]][e[2]].key = "add"
          /\ logFiles[d[1]][d[2]].key = "remove"
          /\ logFiles[d[1]][d[2]].val.path = logFiles[e[1]][e[2]].val.path
          /\ VersionOf(d[1]) > VersionOf(e[1])

\* the rows the files of a set hold, and how many times they hold row
RowsIn(files, live) ==
    UNION {{RowsOf(files[F])[r] : r \in 1..Height(files[F])} : F \in live}

RowCount(files, live, row) ==
    Cardinality(UNION {{<<F, r>> : r \in {r \in 1..Height(files[F]) :
                                            RowsOf(files[F])[r] = row}} :
                       F \in live})

\* C20: after a delete that succeeded, the live files hold the rows the live
\* files held before it except those the predicate holds for: no live file
\* has a matching row, every other row is there as many times as before, no
\* row has appeared, and a live file with no matching row is live as it was.
C20_DeleteRemovesExactlyMatches ==
    [][(CallStep("delete") /\ last'.res = "Ok") =>
        \A before \in {Live(logsDir, logFiles)} :
        \A after \in {Live(logsDir', logFiles')} :
           /\ \A F \in after : ~HasMatch(dataFiles'[F], last'.arg)
           /\ \A row \in RowsIn(dataFiles, before) \cup RowsIn(dataFiles', after) :
                 RowCount(dataFiles', after, row) =
                    IF Matches(row, last'.arg) THEN 0
                    ELSE RowCount(dataFiles, before, row)
           /\ \A F \in before :
                 ~HasMatch(dataFiles[F], last'.arg) =>
                    F \in after /\ dataFiles'[F] = dataFiles[F]]_vars

\* C20 witness: a delete rewrote one live file, which kept a row, and left
\* another live file, which had no matching row, where it was
C20_Witness ==
    /\ last.op = "delete"
    /\ last.res = "Ok"
    /\ \E F, G \in Live(logsDir, logFiles) :
          /\ F # G
          /\ Height(dataFiles[F]) = 1
          /\ Height(dataFiles[G]) = 1
          /\ \E l \in DOMAIN logFiles :
                /\ Len(logFiles[l]) = 2
                /\ logFiles[l][1].key = "add"
                /\ logFiles[l][1].val.path = F
                /\ logFiles[l][2].key = "remove"
                /\ logFiles[l][2].val.path \in DOMAIN dataFiles
                /\ Height(dataFiles[logFiles[l][2].val.path]) = 2
                /\ \E m \in DOMAIN logFiles :
                      /\ NameLess(m, l)
                      /\ Len(logFiles[m]) = 1
                      /\ logFiles[m][1].key = "add"
                      /\ logFiles[m][1].val.path = G

---------------------------------------------------------------------------
\* the names of the DataFiles of a list
NamesOf(data_files) == {data_files[i].name : i \in 1..Len(data_files)}

\* the elements of a list
Elements(list) == {list[i] : i \in 1..Len(list)}

\* the step leaves the log directory as it was
LogUntouched == logsDir' = logsDir /\ logFiles' = logFiles

---------------------------------------------------------------------------
\* C22: the data file is there before the action that names it.  In every
\* state of the single writer, between the steps of a call and after a call
\* that failed included, every path an Add action of the log names, and every
\* path get_datafiles returns, is the name of a file of the base directory.
C22_AddedFilesExist ==
    /\ logsDir => AddPaths(logFiles) \subseteq DOMAIN dataFiles
    /\ \A r \in {get_datafiles(logsDir, logFiles)} :
          r.ok => r.val \subseteq DOMAIN dataFiles

\* a call has failed and left a file no Add names, next to files of earlier
\* commits that are live
C22_Witness ==
    /\ procs[Writer].pc = "done"
    /\ procs[Writer].res # "Ok"
    /\ procs[Writer].op \in {"insert", "delete"}
    /\ Live(logsDir, logFiles) # {}
    /\ \E f \in DOMAIN dataFiles : f \notin AddPaths(logFiles)

---------------------------------------------------------------------------
\* the log file names of the versions 0..n-1
VersionNames(n) == {log_file(v) : v \in 0..(n - 1)}

\* C23: under a single writer, with nothing else writing to the log
\* directory, the log directory holds the versions 0..n-1 and nothing else, n
\* being the number of its entries; and every step that writes to it adds one
\* file, version n, and leaves the files it held as they were.
C23_VersionsDense ==
    /\ [](DOMAIN logFiles = VersionNames(Cardinality(DOMAIN logFiles)))
    /\ [][logFiles' # logFiles =>
             \A n \in {Cardinality(DOMAIN logFiles)} :
                /\ log_file(n) \notin DOMAIN logFiles
                /\ DOMAIN logFiles' = DOMAIN logFiles \cup {log_file(n)}
                /\ \A f \in DOMAIN logFiles : logFiles'[f] = logFiles[f]]_vars

\* version 0 and the commits of an insert and of a delete after it, a failed
\* call having come in between
C23_Witness ==
    /\ DOMAIN logFiles = VersionNames(3)
    /\ \E f \in DOMAIN logFiles : \E i \in 1..Len(logFiles[f]) :
          logFiles[f][i].key = "remove"
    /\ \E f \in DOMAIN dataFiles : f \notin AddPaths(logFiles)

---------------------------------------------------------------------------
\* C24: under a single writer, every step that writes a data file creates one
\* file under a name the base directory did not hold and leaves the files it
\* held as they were, files left by failed calls included; and no two Add
\* actions of the log name the same path.
C24_DataFileNamesFresh ==
    /\ [](\A e, d \in AddPositions(logFiles) :
             logFiles[e[1]][e[2]].val.path = logFiles[d[1]][d[2]].val.path
                => e = d)
    /\ [][dataFiles' # dataFiles =>
             \E f \in DOMAIN dataFiles' :
                /\ f \notin DOMAIN dataFiles
                /\ DOMAIN dataFiles' = DOMAIN dataFiles \cup {f}
                /\ \A g \in DOMAIN dataFiles : dataFiles'[g] = dataFiles[g]]_vars

\* a failed call left a file behind, and a later call wrote and committed a
\* file next to it
C24_Witness ==
    \E f, g \in DOMAIN dataFiles :
       /\ f \notin AddPaths(logFiles)
       /\ g \in AddPaths(logFiles)
       /\ NameLess(f, g)

---------------------------------------------------------------------------
\* every row of the file matches the predicate, and there is one
AllRowsMatch(df, expr) ==
    /\ Height(df) > 0
    /\ \A r \in 1..Height(df) : Matches(RowsOf(df)[r], expr)

---------------------------------------------------------------------------
\* C26: table creation is all-or-nothing.  Whenever no call is between two
\* of its steps, a create_table that failed having just returned included,
\* the base directory does not exist or log version 0 exists and holds one
\* Metadata action; and when create_table returns TableAlreadyExists,
\* read_table opens the table.
C26_CreateAllOrNothing ==
    procs[Writer].pc \in {"idle", "done"} =>
       /\ \/ ~baseDir
          \/ /\ logsDir
             /\ log_file(0) \in DOMAIN logFiles
             /\ IsSingleMetadata(logFiles[log_file(0)])
       /\ (procs[Writer].op = "create_table"
              /\ procs[Writer].res = "TableAlreadyExists") =>
             \A name \in {procs[Writer].arg.name} :
                read_table(name, logsDir, logFiles).ok

====
